---- MODULE Spec2Model ----
(***************************************************************************)
(* texteripy: the asynchronous Texterify API client                        *)
(* (src/texteripy/client.py).                                              *)
(*                                                                         *)
(* The model follows one or several calls of the client's public           *)
(* operations through Texterify._make_request: request construction, the   *)
(* aiohttp session and response contexts, the classification of the        *)
(* response, the except handler, and the continuation of create_key.       *)
(***************************************************************************)
EXTENDS Integers, Sequences, FiniteSets, TLC

(***************************************************************************)
(* Bounds of the model.                                                    *)
(***************************************************************************)
\* Number of calls that may be in flight on one client (SpecConc).
MaxCalls == 2
\* page / per_page arguments range over 1..MaxPage.
MaxPage == 2

CallIds == 1..MaxCalls

(***************************************************************************)
(* Python values.  Every value is a record [t, v]: t is its Python type,   *)
(* v its content.  A dict is its sequence of <<key, value>> items, in      *)
(* insertion order.                                                        *)
(***************************************************************************)
PyNone == [t |-> "none", v |-> "None"]
PyBool(b) == [t |-> "bool", v |-> b]
PyInt(n) == [t |-> "int", v |-> n]
PyStrV(s) == [t |-> "str", v |-> s]
PyDict(items) == [t |-> "dict", v |-> items]
PyList(items) == [t |-> "list", v |-> items]
\* A Python set: a value json.dumps cannot serialize.
PySet(items) == [t |-> "set", v |-> items]
\* An argument the caller did not pass (the signature's default applies).
Omitted == [t |-> "omitted", v |-> "omitted"]

\* bool(x): Python truthiness.
Truthy(x) ==
  CASE x.t = "none" -> FALSE
    [] x.t = "bool" -> x.v
    [] x.t = "int" -> x.v # 0
    [] x.t = "str" -> x.v # ""
    [] x.t \in {"dict", "list", "set"} -> Len(x.v) > 0
    [] OTHER -> TRUE

\* isinstance(x, bool)
IsBool(x) == x.t = "bool"

\* str(x) for the scalar values that occur as arguments.
Str(x) ==
  CASE x.t = "none" -> "None"
    [] x.t = "bool" -> IF x.v THEN "True" ELSE "False"
    [] x.t = "int" -> ToString(x.v)
    [] x.t = "str" -> x.v
    [] OTHER -> "<object>"

\* str.lower(), on the strings it is applied to (str() of a bool).
Lower(s) ==
  CASE s = "True" -> "true"
    [] s = "False" -> "false"
    [] OTHER -> s

\* d[k] exists
HasKey(d, k) == d.t = "dict" /\ \E i \in 1..Len(d.v) : d.v[i][1] = k

\* d[k]
Item(d, k) == d.v[CHOOSE i \in 1..Len(d.v) : d.v[i][1] = k][2]

\* d.get(k): None when the key is absent.
Get(d, k) == IF HasKey(d, k) THEN Item(d, k) ELSE PyNone

\* A parameter with its signature default.
Arg(x, default) == IF x = Omitted THEN default ELSE x

(***************************************************************************)
(* json.dumps, with the default separators.                                *)
(***************************************************************************)
RECURSIVE Serializable(_)
Serializable(x) ==
  CASE x.t \in {"none", "bool", "int", "str"} -> TRUE
    [] x.t = "dict" -> \A i \in 1..Len(x.v) : Serializable(x.v[i][2])
    [] x.t = "list" -> \A i \in 1..Len(x.v) : Serializable(x.v[i])
    [] OTHER -> FALSE

RECURSIVE Join(_, _)
Join(strs, sep) ==
  IF Len(strs) = 0 THEN ""
  ELSE IF Len(strs) = 1 THEN strs[1]
  ELSE strs[1] \o sep \o Join(Tail(strs), sep)

RECURSIVE JsonDumps(_)
JsonDumps(x) ==
  CASE x.t = "none" -> "null"
    [] x.t = "bool" -> IF x.v THEN "true" ELSE "false"
    [] x.t = "int" -> ToString(x.v)
    [] x.t = "str" -> "\"" \o x.v \o "\""
    [] x.t = "dict" ->
         "{" \o Join([i \in 1..Len(x.v) |->
                        "\"" \o x.v[i][1] \o "\": " \o JsonDumps(x.v[i][2])], ", ")
             \o "}"
    [] x.t = "list" ->
         "[" \o Join([i \in 1..Len(x.v) |-> JsonDumps(x.v[i])], ", ") \o "]"
    [] OTHER -> "<not serializable>"

(***************************************************************************)
(* Texterify.__init__                                                      *)
(***************************************************************************)
Emails == {"test@example.com", "dev@example.com"}
Secrets == {"test_secret"}

ApiBaseUrl == "https://app.texterify.com/api" \o "/" \o "v1" \o "/"

RequestHeaders(email, secret) ==
  ("Accept" :> "application/json") @@ ("Content-Type" :> "application/json")
    @@ ("Auth-Email" :> email) @@ ("Auth-Secret" :> secret)

(***************************************************************************)
(* The endpoint descriptor: the arguments of one _make_request call.       *)
(***************************************************************************)
MakeRequestArgs(url, method, params, is_file_download) ==
  [url |-> url, method |-> method, params |-> params,
   is_file_download |-> is_file_download]

\* _get_request(url, query_params=None, is_file_download=False)
_get_request(url, query_params, is_file_download) ==
  MakeRequestArgs(url, "GET", query_params, is_file_download)

\* _post_request(url, body=None)
_post_request(url, body) == MakeRequestArgs(url, "POST", body, FALSE)

\* _put_request(url, body=None)
_put_request(url, body) == MakeRequestArgs(url, "PUT", body, FALSE)

\* _delete_request(url, body=None)
_delete_request(url, body) == MakeRequestArgs(url, "DELETE", body, FALSE)

(***************************************************************************)
(* The operation surface: each public operation shapes its arguments `a`   *)
(* into the descriptor it hands to the dispatcher.                         *)
(***************************************************************************)
get_keys_params_partial(a) ==
  PyDict(SelectSeq(
    << <<"page", a.page>>, <<"per_page", a.per_page>>,
       <<"case_sensitive", a.case_sensitive>>,
       <<"only_html_enabled", a.only_html_enabled>>,
       <<"only_untranslated", a.only_untranslated>>,
       <<"only_with_overwrites", a.only_with_overwrites>> >>,
    LAMBDA kv : kv[2] # Omitted))

get_keys_params(a) ==
  PyDict(<< <<"page", Arg(a.page, PyInt(1))>>,
            <<"per_page", Arg(a.per_page, PyInt(10))>>,
            <<"case_sensitive", Arg(a.case_sensitive, PyBool(FALSE))>>,
            <<"only_html_enabled", Arg(a.only_html_enabled, PyBool(FALSE))>>,
            <<"only_untranslated", Arg(a.only_untranslated, PyBool(FALSE))>>,
            <<"only_with_overwrites", Arg(a.only_with_overwrites, PyBool(FALSE))>> >>)

get_keys(a) ==
  _get_request("projects/" \o Str(a.project_id) \o "/keys", get_keys_params(a), FALSE)

\* The key-creation POST of create_key (lines 155-158); its continuation is
\* the action CreateKeyContinue.
create_key(a) ==
  _post_request("projects/" \o Str(a.project_id) \o "/keys",
                PyDict(<< <<"name", a.name>>, <<"description", a.description>> >>))

update_key(a) ==
  _put_request("projects/" \o Str(a.project_id) \o "/keys/" \o Str(a.key_id),
               PyDict(<< <<"name", a.name>>, <<"description", a.description>> >>))

delete_keys(a) ==
  _delete_request("projects/" \o Str(a.project_id) \o "/keys",
                  PyDict(<< <<"keys", a.keys>> >>))

get_projects(a) == _get_request("projects", PyNone, FALSE)

get_project(a) == _get_request("projects/" \o Str(a.project_id), PyNone, FALSE)

create_project(a) ==
  _post_request("projects",
    PyDict(<< <<"project",
               PyDict(<< <<"name", a.name>>, <<"description", a.description>> >>)>> >>))

update_project(a) ==
  _put_request("projects",
    PyDict(<< <<"project",
               PyDict(<< <<"name", a.name>>, <<"description", a.description>> >>)>> >>))

export_project(a) ==
  _get_request("projects/" \o Str(a.project_id) \o "/exports/" \o Str(a.export_config_id),
               a.options, TRUE)

\* The local files import_project may be pointed at: path -> bytes.
FileSystem == ("tests/export" :> "file content") @@ ("tests/empty" :> "")

\* base64.b64encode(file_bytes).decode(), on the files of FileSystem.
Base64(bytes) ==
  CASE bytes = "file content" -> "ZmlsZSBjb250ZW50"
    [] bytes = "" -> ""
    [] OTHER -> "<base64>"

\* open(file_path, "rb") succeeds
FileReadable(a) == Str(a.file_path) \in DOMAIN FileSystem

import_project(a) ==
  _post_request("projects/" \o Str(a.project_id) \o "/import",
    PyDict(<< <<"language_id", a.language_id>>,
              <<"file", PyStrV(Base64(FileSystem[Str(a.file_path)]))>> >>))

create_translation(a) ==
  _post_request("projects/" \o Str(a.project_id) \o "/translations",
    PyDict(<< <<"language_id", Arg(a.language_id, PyNone)>>,
              <<"key_id", a.key_id>>,
              <<"translation", PyDict(<< <<"content", a.content>> >>)>> >>))

get_languages(a) ==
  _get_request("projects/" \o Str(a.project_id) \o "/languages",
    PyDict(<< <<"page", Arg(a.page, PyInt(1))>>,
              <<"per_page", Arg(a.per_page, PyInt(10))>>,
              <<"search", IF Truthy(Arg(a.search, PyNone))
                          THEN Arg(a.search, PyNone) ELSE PyStrV("")>> >>),
    FALSE)

\* The descriptor the public operation `op` builds from its arguments.
Shape(op, a) ==
  CASE op = "get_keys" -> get_keys(a)
    [] op = "create_key" -> create_key(a)
    [] op = "update_key" -> update_key(a)
    [] op = "delete_keys" -> delete_keys(a)
    [] op = "get_projects" -> get_projects(a)
    [] op = "get_project" -> get_project(a)
    [] op = "create_project" -> create_project(a)
    [] op = "update_project" -> update_project(a)
    [] op = "export_project" -> export_project(a)
    [] op = "import_project" -> import_project(a)
    [] op = "create_translation" -> create_translation(a)
    [] op = "get_languages" -> get_languages(a)

(***************************************************************************)
(* _make_request, lines 54-67: request construction.                       *)
(***************************************************************************)
\* Line 57 without the lowercasing of booleans.
FlattenValueRaw(x) == IF IsBool(x) THEN PyStrV(Str(x)) ELSE x

\* Line 57: str(v).lower() if isinstance(v, bool) else v
FlattenValue(x) == IF IsBool(x) THEN PyStrV(Lower(Str(x))) ELSE x

\* Line 57: the list of (k, v) tuples made from params.items().
Flatten(params) ==
  [t |-> "pairs",
   v |-> [i \in 1..Len(params.v) |-> <<params.v[i][1], FlattenValue(params.v[i][2])>>]]

\* urllib.parse.quote_plus, on the strings that occur.
QuotePlus(s) ==
  CASE s = "a b" -> "a+b"
    [] OTHER -> s

\* urllib.parse.urlencode of a list of tuples: the k=v items of the query
\* string, in order (each side is quote_plus(str(.))).
UrlEncode(pairs) ==
  [i \in 1..Len(pairs.v) |->
     <<QuotePlus(pairs.v[i][1]), QuotePlus(Str(pairs.v[i][2]))>>]

\* Line 56: if method == "GET" and params
FoldsQuery(method, params) == method = "GET" /\ Truthy(params)

\* Lines 56-57: params as rebound before the options are built.
EncodedParams(method, params) ==
  IF FoldsQuery(method, params) THEN Flatten(params) ELSE params

\* Lines 54-58: full_url; the text after "?" is kept as its list of items.
FullUrl(base, url, method, params) ==
  [url |-> base \o url,
   query |-> IF FoldsQuery(method, params)
             THEN UrlEncode(EncodedParams(method, params)) ELSE << >>]

\* Lines 60-67: the options handed to session.request.
Options(headers, method, params) ==
  IF method # "GET"
  THEN [headers |-> headers, data |-> JsonDumps(EncodedParams(method, params))]
  ELSE [headers |-> headers, params |-> EncodedParams(method, params)]

\* json.dumps(params) raises TypeError (line 65).
EncodingFails(method, params) ==
  method # "GET" /\ ~Serializable(EncodedParams(method, params))

(***************************************************************************)
(* Exceptions and log entries.                                             *)
(***************************************************************************)
Exc(type, msg) == [type |-> type, msg |-> msg]
NoError == Exc("", "")

\* Line 77: Exception(f"Invalid response status received: {response.status}\n")
StatusError(status) ==
  Exc("Exception", "Invalid response status received: " \o ToString(status) \o "\n")

\* Lines 72-76: the message logged for a failing status.
StatusLogMessage(status) ==
  IF status = 404
  THEN "The resource could not be found. Maybe your auth credentials are wrong or you"
         \o " don't have the permission to access this resource."
  ELSE "Invalid response status received: " \o ToString(status)

\* One logger.error call: the dispatch it belongs to, its source line, its text.
LogEntry(k, line, msg) == [k |-> k, line |-> line, msg |-> msg]

(***************************************************************************)
(* Line 71: the statuses that are not failures.                            *)
(***************************************************************************)
StatusOkOnly200(status) == status = 200

StatusOk(status) == ~(status # 200 /\ status # 400)

(***************************************************************************)
(* The server's side: statuses and bodies.                                 *)
(***************************************************************************)
Statuses == {200, 201, 400, 404, 500}

BodyKey(id) ==
  PyDict(<< <<"data", PyDict(<< <<"attributes",
             PyDict(<< <<"id", PyStrV(id)>>, <<"name", PyStrV("key1")>> >>)>> >>)>> >>)
BodyError(code) == PyDict(<< <<"error", PyStrV(code)>> >>)
BodyEmptyData == PyDict(<< <<"data", PyDict(<< >>)>> >>)
BodyNullError ==
  PyDict(<< <<"error", PyNone>>,
            <<"data", PyDict(<< <<"attributes", PyDict(<< <<"id", PyStrV("2")>> >>)>> >>)>> >>)
BodyNoId == PyDict(<< <<"data", PyDict(<< <<"attributes", PyDict(<< >>)>> >>)>> >>)
BodyList == PyList(<< >>)

\* The JSON documents the server may answer with.
JsonBodies ==
  {BodyKey("1"), BodyError("SOME_CODE"), BodyError("NO_DEFAULT_LANGUAGE_SPECIFIED"),
   BodyEmptyData, BodyNullError, BodyNoId, BodyList}

\* A body that is not JSON.
NotJson == "<html>Bad Gateway</html>"

\* The body texts on the wire.
BodyTexts == {JsonDumps(b) : b \in JsonBodies} \cup {NotJson}

\* response.json() succeeds
IsJson(text) == \E b \in JsonBodies : JsonDumps(b) = text

\* response.json()
JsonLoads(text) == CHOOSE b \in JsonBodies : JsonDumps(b) = text

Responses == [status : Statuses, body : BodyTexts]

(***************************************************************************)
(* The calls a caller may make: the public operation and its arguments.    *)
(***************************************************************************)
Input(op, args) == [op |-> op, args |-> args]

PageArgs == {Omitted} \cup {PyInt(n) : n \in 1..MaxPage}
BoolArgs == {Omitted, PyBool(TRUE), PyBool(FALSE)}
FlagArgs == {Omitted, PyBool(TRUE)}

GetKeysInputs ==
  {Input("get_keys",
         [project_id |-> PyStrV("p1"), page |-> pg, per_page |-> pp,
          case_sensitive |-> cs, only_html_enabled |-> oh,
          only_untranslated |-> ou, only_with_overwrites |-> ow]) :
     pg \in PageArgs, pp \in PageArgs, cs \in BoolArgs, oh \in BoolArgs,
     ou \in FlagArgs, ow \in FlagArgs}

CreateKeyInputs ==
  {Input("create_key",
         [project_id |-> PyStrV("p1"), name |-> PyStrV("key1"),
          description |-> PyStrV("description"),
          default_language_translation |-> dlt]) :
     dlt \in {Omitted, PyNone, PyStrV(""), PyStrV("Hallo")}}

KeyInputs ==
  {Input("update_key",
         [project_id |-> PyStrV("p1"), key_id |-> PyStrV("1"),
          name |-> PyStrV("key1_updated"), description |-> PyStrV("description_updated")])}
  \cup
  {Input("delete_keys", [project_id |-> PyStrV("p1"), keys |-> ks]) :
     ks \in {PyList(<<PyStrV("1"), PyStrV("2")>>), PySet(<<PyStrV("1")>>)}}

ProjectInputs ==
  {Input("get_projects", [none |-> PyNone]),
   Input("get_project", [project_id |-> PyStrV("p1")]),
   Input("create_project",
         [name |-> PyStrV("project1"), description |-> PyStrV("description")]),
   Input("update_project",
         [name |-> PyStrV("project1_updated"), description |-> PyStrV("description")])}

ExportOptions ==
  {PyDict(<< >>),
   PyDict(<< <<"emojify", PyBool(TRUE)>> >>),
   PyDict(<< <<"locale", PyStrV("en")>>, <<"fallback", PyBool(FALSE)>> >>)}

TransferInputs ==
  {Input("export_project",
         [project_id |-> PyStrV("p1"), export_config_id |-> PyStrV("export_config_id"),
          options |-> o]) : o \in ExportOptions}
  \cup
  {Input("import_project",
         [project_id |-> PyStrV("p1"), language_id |-> PyStrV("language_id"),
          file_path |-> PyStrV(f)]) : f \in {"tests/export", "tests/missing"}}

TranslationInputs ==
  {Input("create_translation",
         [project_id |-> PyStrV("p1"), key_id |-> PyStrV("1"),
          content |-> PyStrV("translation"), language_id |-> l]) :
     l \in {Omitted, PyStrV("language_id")}}

LanguageInputs ==
  {Input("get_languages",
         [project_id |-> PyStrV("p1"), page |-> pg, per_page |-> pp, search |-> se]) :
     pg \in PageArgs, pp \in PageArgs,
     se \in {Omitted, PyNone, PyStrV(""), PyStrV("a b")}}

Inputs ==
  GetKeysInputs \cup CreateKeyInputs \cup KeyInputs \cup ProjectInputs
    \cup TransferInputs \cup TranslationInputs \cup LanguageInputs

NoInput == Input("", [none |-> PyNone])

(***************************************************************************)
(* State.                                                                  *)
(***************************************************************************)
VARIABLES
  auth_email,       \* self.auth_email
  auth_secret,      \* self.auth_secret
  api_base_url,     \* self.api_base_url
  request_headers,  \* self.request_headers
  pc,               \* per call: where the call stands
  op,               \* per call: the public operation invoked and its arguments
  new_key,          \* per call: create_key's local new_key
  translations,     \* per call: the create_translation calls create_key made
  mr,               \* per call: the arguments and locals of the running _make_request
  sess,             \* per call: the aiohttp sessions the call created
  response,         \* per call: the response of the running _make_request
  wire,             \* per call: the requests handed to session.request
  logs,             \* per call: the logger.error calls
  outcome           \* per call: what the caller of the public operation gets

vars == <<auth_email, auth_secret, api_base_url, request_headers, pc, op, new_key,
          translations, mr, sess, response, wire, logs, outcome>>

client == <<auth_email, auth_secret, api_base_url, request_headers>>

NoSession == <<0, 0>>

\* The frame of a _make_request call: its arguments (dispatch number k of
\* the public call) and its locals before line 54.  arg_params is params as
\* passed by the operation, params the local that line 57 rebinds.
Frame(k, d) ==
  [k |-> k, url |-> d.url, method |-> d.method, arg_params |-> d.params,
   params |-> d.params, is_file_download |-> d.is_file_download,
   full_url |-> [url |-> "", query |-> << >>],
   options |-> [headers |-> << >>],
   session |-> NoSession, error |-> NoError, result |-> PyNone]

NoFrame == Frame(0, MakeRequestArgs("", "", PyNone, FALSE))

NoResponse == [status |-> 0, body |-> "", state |-> "none", read |-> FALSE]

NoOutcome == [kind |-> "none", value |-> PyNone, error |-> NoError]
Returned(value) == [kind |-> "return", value |-> value, error |-> NoError]
Raised(error) == [kind |-> "raise", value |-> PyNone, error |-> error]

\* The response object of dispatch k of call c, as a value.
ResponseHandle(c, k) == [t |-> "response", v |-> <<c, k>>]

Init ==
  /\ auth_email \in Emails
  /\ auth_secret \in Secrets
  /\ api_base_url = ApiBaseUrl
  /\ request_headers = RequestHeaders(auth_email, auth_secret)
  /\ pc = [c \in CallIds |-> "idle"]
  /\ op = [c \in CallIds |-> NoInput]
  /\ new_key = [c \in CallIds |-> PyNone]
  /\ translations = [c \in CallIds |-> << >>]
  /\ mr = [c \in CallIds |-> NoFrame]
  /\ sess = [c \in CallIds |-> << >>]
  /\ response = [c \in CallIds |-> NoResponse]
  /\ wire = [c \in CallIds |-> << >>]
  /\ logs = [c \in CallIds |-> << >>]
  /\ outcome = [c \in CallIds |-> NoOutcome]

(***************************************************************************)
(* A public operation is called (lines 126-301, up to its await).          *)
(* import_project reads its file first (lines 267-268); open() may fail.   *)
(***************************************************************************)
Invoke(c, inp) ==
  /\ pc[c] = "idle"
  /\ op' = [op EXCEPT ![c] = inp]
  /\ IF inp.op = "import_project" /\ ~FileReadable(inp.args)
     THEN /\ outcome' = [outcome EXCEPT ![c] =
                Raised(Exc("FileNotFoundError", "No such file or directory"))]
          /\ pc' = [pc EXCEPT ![c] = "done"]
          /\ mr' = mr
     ELSE /\ mr' = [mr EXCEPT ![c] = Frame(1, Shape(inp.op, inp.args))]
          /\ pc' = [pc EXCEPT ![c] = "make_request"]
          /\ outcome' = outcome
  /\ UNCHANGED <<client, new_key, translations, sess, response, wire, logs>>

(***************************************************************************)
(* _make_request, lines 54-67.                                             *)
(***************************************************************************)
Encode(c) ==
  /\ pc[c] = "make_request"
  /\ LET f == mr[c]
         url == FullUrl(api_base_url, f.url, f.method, f.arg_params)
     IN IF EncodingFails(f.method, f.arg_params)
        THEN /\ mr' = [mr EXCEPT ![c] =
                  [f EXCEPT !.full_url = url,
                            !.params = EncodedParams(f.method, f.arg_params),
                            !.error = Exc("TypeError", "Object is not JSON serializable")]]
             /\ pc' = [pc EXCEPT ![c] = "except"]
        ELSE /\ mr' = [mr EXCEPT ![c] =
                  [f EXCEPT !.full_url = url,
                            !.params = EncodedParams(f.method, f.arg_params),
                            !.options = Options(request_headers, f.method, f.arg_params)]]
             /\ pc' = [pc EXCEPT ![c] = "session"]
  /\ UNCHANGED <<client, op, new_key, translations, sess, response, wire, logs, outcome>>

(***************************************************************************)
(* Line 69: async with aiohttp.ClientSession() as session                  *)
(***************************************************************************)
\* aiohttp.ClientSession(): a new session object, the next of those call c made.
SessionRef(c) == <<c, Len(sess[c]) + 1>>

OpenSession(c) ==
  /\ pc[c] = "session"
  /\ sess' = [sess EXCEPT ![c] =
                Append(@, [state |-> "open", uses |-> 0, k |-> mr[c].k])]
  /\ mr' = [mr EXCEPT ![c].session = SessionRef(c)]
  /\ pc' = [pc EXCEPT ![c] = "request"]
  /\ UNCHANGED <<client, op, new_key, translations, response, wire, logs, outcome>>

(***************************************************************************)
(* Line 70: session.request(method, full_url, **options)                   *)
(***************************************************************************)
SendRequest(c) ==
  /\ pc[c] = "request"
  /\ LET f == mr[c]
     IN /\ wire' = [wire EXCEPT ![c] =
                      Append(@, [k |-> f.k, method |-> f.method, full_url |-> f.full_url,
                                 options |-> f.options, session |-> f.session])]
        /\ sess' = [sess EXCEPT ![f.session[1]][f.session[2]].uses = @ + 1]
  /\ pc' = [pc EXCEPT ![c] = "await_response"]
  /\ UNCHANGED <<client, op, new_key, translations, mr, response, logs, outcome>>

\* The response arrives: the response context is entered.
Receive(c, r) ==
  /\ pc[c] = "await_response"
  /\ response' = [response EXCEPT ![c] =
                    [status |-> r.status, body |-> r.body, state |-> "open", read |-> FALSE]]
  /\ pc' = [pc EXCEPT ![c] = "status"]
  /\ UNCHANGED <<client, op, new_key, translations, mr, sess, wire, logs, outcome>>

\* session.request raises: no response.
NetworkFailure(c) ==
  /\ pc[c] = "await_response"
  /\ mr' = [mr EXCEPT ![c].error = Exc("ClientConnectionError", "Cannot connect to host")]
  /\ pc' = [pc EXCEPT ![c] = "exit_session"]
  /\ UNCHANGED <<client, op, new_key, translations, sess, response, wire, logs, outcome>>

(***************************************************************************)
(* Lines 71-78: the classification of the response.                        *)
(***************************************************************************)
\* One response slot shared by the calls of a client: every call reads the
\* response held by the lowest-numbered call that holds one.
CurrentResponseShared(c) ==
  LET held == {d \in CallIds : response[d].state # "none"}
  IN IF held = {} THEN response[c] ELSE response[CHOOSE d \in held : \A e \in held : d <= e]

\* Line 70: `as response`, a local of the call's own coroutine.
CurrentResponse(c) == response[c]

\* A failing status retried once before it is reported.
StatusFailureRetrying(c) ==
  /\ pc[c] = "status"
  /\ ~StatusOk(CurrentResponse(c).status)
  /\ IF Len(SelectSeq(wire[c], LAMBDA w : w.k = mr[c].k)) < 2
     THEN /\ pc' = [pc EXCEPT ![c] = "request"]
          /\ UNCHANGED <<logs, mr>>
     ELSE /\ logs' = [logs EXCEPT ![c] =
                Append(@, LogEntry(mr[c].k, 76, StatusLogMessage(CurrentResponse(c).status)))]
          /\ mr' = [mr EXCEPT ![c].error = StatusError(CurrentResponse(c).status)]
          /\ pc' = [pc EXCEPT ![c] = "exit_response"]
  /\ UNCHANGED <<client, op, new_key, translations, sess, response, wire, outcome>>

StatusFailure(c) ==
  /\ pc[c] = "status"
  /\ ~StatusOk(CurrentResponse(c).status)
  /\ logs' = [logs EXCEPT ![c] =
                Append(@, LogEntry(mr[c].k, IF CurrentResponse(c).status = 404 THEN 73 ELSE 76,
                                   StatusLogMessage(CurrentResponse(c).status)))]
  /\ mr' = [mr EXCEPT ![c].error = StatusError(CurrentResponse(c).status)]
  /\ pc' = [pc EXCEPT ![c] = "exit_response"]
  /\ UNCHANGED <<client, op, new_key, translations, sess, response, wire, outcome>>

\* Line 78, not a download: await response.json()
ReadJson(c) ==
  /\ pc[c] = "status"
  /\ StatusOk(CurrentResponse(c).status)
  /\ ~mr[c].is_file_download
  /\ response' = [response EXCEPT ![c].read = TRUE]
  /\ mr' = [mr EXCEPT ![c] =
              IF IsJson(CurrentResponse(c).body)
              THEN [@ EXCEPT !.result = JsonLoads(CurrentResponse(c).body)]
              ELSE [@ EXCEPT !.error = Exc("JSONDecodeError", "Expecting value")]]
  /\ pc' = [pc EXCEPT ![c] = "exit_response"]
  /\ UNCHANGED <<client, op, new_key, translations, sess, wire, logs, outcome>>

\* Line 78, a download: the response object itself is the value returned.
ReturnHandle(c) ==
  /\ pc[c] = "status"
  /\ StatusOk(CurrentResponse(c).status)
  /\ mr[c].is_file_download
  /\ mr' = [mr EXCEPT ![c].result = ResponseHandle(c, mr[c].k)]
  /\ pc' = [pc EXCEPT ![c] = "exit_response"]
  /\ UNCHANGED <<client, op, new_key, translations, sess, response, wire, logs, outcome>>

(***************************************************************************)
(* Leaving the two `async with` blocks (lines 70 and 69), by return or by  *)
(* exception: the response is released, then the session is closed.        *)
(***************************************************************************)
ExitResponse(c) ==
  /\ pc[c] = "exit_response"
  /\ response' = [response EXCEPT ![c].state = "released"]
  /\ pc' = [pc EXCEPT ![c] = "exit_session"]
  /\ UNCHANGED <<client, op, new_key, translations, mr, sess, wire, logs, outcome>>

\* A session closed on the return path only.
SessionAfterExitOnSuccess(s, failed) == IF failed THEN s ELSE [s EXCEPT !.state = "closed"]

\* ClientSession.__aexit__: the session is closed, whatever ended the block.
SessionAfterExit(s, failed) == [s EXCEPT !.state = "closed"]

ExitSession(c) ==
  /\ pc[c] = "exit_session"
  /\ LET ref == mr[c].session
     IN sess' = [sess EXCEPT ![ref[1]][ref[2]] = SessionAfterExit(@, mr[c].error # NoError)]
  /\ pc' = [pc EXCEPT ![c] = IF mr[c].error # NoError THEN "except" ELSE "returned"]
  /\ UNCHANGED <<client, op, new_key, translations, mr, response, wire, logs, outcome>>

(***************************************************************************)
(* Lines 80-82: except Exception as error: logger.error(...); raise error  *)
(***************************************************************************)
Except(c) ==
  /\ pc[c] = "except"
  /\ logs' = [logs EXCEPT ![c] = Append(@, LogEntry(mr[c].k, 81, "Error:"))]
  /\ pc' = [pc EXCEPT ![c] = "raised"]
  /\ UNCHANGED <<client, op, new_key, translations, mr, sess, response, wire, outcome>>

(***************************************************************************)
(* Back in the public operation.                                           *)
(***************************************************************************)
\* No public operation handles an exception of _make_request.
Propagate(c) ==
  /\ pc[c] = "raised"
  /\ outcome' = [outcome EXCEPT ![c] = Raised(mr[c].error)]
  /\ pc' = [pc EXCEPT ![c] = "done"]
  /\ UNCHANGED <<client, op, new_key, translations, mr, sess, response, wire, logs>>

\* return await self._..._request(...): every operation but create_key.
Return(c) ==
  /\ pc[c] = "returned"
  /\ op[c].op # "create_key"
  /\ outcome' = [outcome EXCEPT ![c] = Returned(mr[c].result)]
  /\ pc' = [pc EXCEPT ![c] = "done"]
  /\ UNCHANGED <<client, op, new_key, translations, mr, sess, response, wire, logs>>

\* Line 160 with `default_language_translation is not None` as its last test.
WantsTranslationNotNone(nk, dlt) ==
  ~Truthy(Get(nk, "error")) /\ Truthy(Get(nk, "data")) /\ dlt.t # "none"

\* Line 160: not new_key.get("error") and new_key.get("data")
\*           and default_language_translation
WantsTranslation(nk, dlt) ==
  ~Truthy(Get(nk, "error")) /\ Truthy(Get(nk, "data")) /\ Truthy(dlt)

\* Line 163: new_key["data"]["attributes"]["id"] can be evaluated.
HasKeyId(nk) ==
  /\ HasKey(nk, "data")
  /\ HasKey(Item(nk, "data"), "attributes")
  /\ HasKey(Item(Item(nk, "data"), "attributes"), "id")

\* Line 163: new_key["data"]["attributes"]["id"]
KeyId(nk) == Item(Item(Item(nk, "data"), "attributes"), "id")

\* Lines 160-165 of create_key, after the key-creation POST has returned.
CreateKeyContinue(c) ==
  /\ pc[c] = "returned"
  /\ op[c].op = "create_key"
  /\ mr[c].k = 1
  /\ LET nk == mr[c].result
         dlt == Arg(op[c].args.default_language_translation, PyNone)
         targs == [project_id |-> op[c].args.project_id, key_id |-> KeyId(nk),
                   content |-> dlt, language_id |-> Omitted]
     IN /\ new_key' = [new_key EXCEPT ![c] = nk]
        /\ IF nk.t # "dict"
           THEN /\ outcome' = [outcome EXCEPT ![c] =
                      Raised(Exc("AttributeError", "object has no attribute 'get'"))]
                /\ pc' = [pc EXCEPT ![c] = "done"]
                /\ UNCHANGED <<translations, mr, response>>
           ELSE IF ~WantsTranslation(nk, dlt)
           THEN /\ outcome' = [outcome EXCEPT ![c] = Returned(nk)]
                /\ pc' = [pc EXCEPT ![c] = "done"]
                /\ UNCHANGED <<translations, mr, response>>
           ELSE IF ~HasKeyId(nk)
           THEN /\ outcome' = [outcome EXCEPT ![c] = Raised(Exc("KeyError", "id"))]
                /\ pc' = [pc EXCEPT ![c] = "done"]
                /\ UNCHANGED <<translations, mr, response>>
           ELSE /\ translations' = [translations EXCEPT ![c] = Append(@, targs)]
                /\ mr' = [mr EXCEPT ![c] = Frame(2, Shape("create_translation", targs))]
                /\ response' = [response EXCEPT ![c] = NoResponse]
                /\ pc' = [pc EXCEPT ![c] = "make_request"]
                /\ outcome' = outcome
  /\ UNCHANGED <<client, op, sess, wire, logs>>

\* create_key returning the translation's response.
CreateKeyResultSecondary(nk, ntr) == ntr

\* Line 171: return new_key
CreateKeyResult(nk, ntr) == nk

\* Lines 167-171 of create_key, after create_translation has returned.
CreateKeyFinish(c) ==
  /\ pc[c] = "returned"
  /\ op[c].op = "create_key"
  /\ mr[c].k = 2
  /\ LET ntr == mr[c].result
     IN IF ntr.t # "dict"
        THEN /\ outcome' = [outcome EXCEPT ![c] =
                   Raised(Exc("AttributeError", "object has no attribute 'get'"))]
             /\ logs' = logs
        ELSE /\ logs' = [logs EXCEPT ![c] =
                   IF Get(ntr, "error") = PyStrV("NO_DEFAULT_LANGUAGE_SPECIFIED")
                   THEN Append(@, LogEntry(0, 168,
                          "You need to define a default language if you want to add translations for"
                            \o " your default language directly when creating a new key."))
                   ELSE @]
             /\ outcome' = [outcome EXCEPT ![c] = Returned(CreateKeyResult(new_key[c], ntr))]
  /\ pc' = [pc EXCEPT ![c] = "done"]
  /\ UNCHANGED <<client, op, new_key, translations, mr, sess, response, wire>>

(***************************************************************************)
(* Specifications.                                                         *)
(***************************************************************************)
\* One step of call c, the caller choosing among `inputs` and the server
\* among `responses`.
Step(c, inputs, responses) ==
  \/ \E inp \in inputs : Invoke(c, inp)
  \/ Encode(c)
  \/ OpenSession(c)
  \/ SendRequest(c)
  \/ \E r \in responses : Receive(c, r)
  \/ NetworkFailure(c)
  \/ StatusFailure(c)
  \/ ReadJson(c)
  \/ ReturnHandle(c)
  \/ ExitResponse(c)
  \/ ExitSession(c)
  \/ Except(c)
  \/ Propagate(c)
  \/ Return(c)
  \/ CreateKeyContinue(c)
  \/ CreateKeyFinish(c)

\* One call on a client: every operation, every argument, every response.
Next == Step(1, Inputs, Responses)

Spec == Init /\ [][Next]_vars

\* The calls and the responses of the concurrent specification.
ConcInputs ==
  {Input("create_key",
         [project_id |-> PyStrV("p1"), name |-> PyStrV("key1"),
          description |-> PyStrV("description"),
          default_language_translation |-> PyStrV("Hallo")]),
   Input("export_project",
         [project_id |-> PyStrV("p2"), export_config_id |-> PyStrV("export_config_id"),
          options |-> PyDict(<< <<"emojify", PyBool(TRUE)>> >>)])}

ConcResponses ==
  {[status |-> 200, body |-> JsonDumps(BodyKey("1"))],
   [status |-> 400, body |-> JsonDumps(BodyError("NO_DEFAULT_LANGUAGE_SPECIFIED"))],
   [status |-> 404, body |-> NotJson]}

\* Up to MaxCalls calls in flight on one client, their steps interleaved.
NextConc == \E c \in CallIds : Step(c, ConcInputs, ConcResponses)

SpecConc == Init /\ [][NextConc]_vars

(***************************************************************************)
(* Properties.                                                             *)
(***************************************************************************)
\* The running _make_request of call c has completed, by return or by raise.
DispatchDone(c) == pc[c] \in {"returned", "raised"}

\* The log entries of the running _make_request of call c.
DispatchLogs(c) == SelectSeq(logs[c], LAMBDA e : e.k = mr[c].k)

\* The sessions the running _make_request of call c opened.
DispatchSessions(c) == {i \in 1..Len(sess[c]) : sess[c][i].k = mr[c].k}

\* C1: _make_request classifies the response by status only.  For a status
\* outside {200, 400} the call raises an error carrying the status code and
\* returns nothing; for status 200 or 400 on a non-download call it returns
\* the decoded JSON body verbatim, whatever the body holds (an `error` field
\* included), and the operation hands that value to its caller.
C1_StatusOnlyClassification ==
  \A c \in CallIds :
    /\ (DispatchDone(c) /\ response[c].state # "none") =>
      LET st == response[c].status
          body == response[c].body
      IN /\ st \notin {200, 400} =>
              /\ pc[c] = "raised"
              /\ mr[c].error.type = "Exception"
              /\ mr[c].error.msg =
                   "Invalid response status received: " \o ToString(st) \o "\n"
              /\ mr[c].result = PyNone
         /\ (st \in {200, 400} /\ ~mr[c].is_file_download /\ IsJson(body)) =>
              /\ pc[c] = "returned"
              /\ mr[c].error = NoError
              /\ JsonDumps(mr[c].result) = body
    /\ (pc[c] = "done" /\ op[c].op # "create_key" /\ response[c].state # "none") =>
         LET st == response[c].status
             body == response[c].body
         IN /\ st \notin {200, 400} =>
                 /\ outcome[c].kind = "raise"
                 /\ outcome[c].error.msg =
                      "Invalid response status received: " \o ToString(st) \o "\n"
            /\ (st \in {200, 400} /\ ~mr[c].is_file_download /\ IsJson(body)) =>
                 /\ outcome[c].kind = "return"
                 /\ JsonDumps(outcome[c].value) = body

\* C1 witness: a 400 response whose body is {"error": "SOME_CODE"} has been
\* returned, not raised.
C1_Witness ==
  \E c \in CallIds :
    /\ pc[c] = "returned"
    /\ response[c].status = 400
    /\ mr[c].result = PyDict(<< <<"error", PyStrV("SOME_CODE")>> >>)

\* C2 (as claimed): every call of a public operation issues exactly one HTTP
\* request and yields exactly one result.
C2_ExactlyOneRequest ==
  \A c \in CallIds :
    pc[c] = "done" => (Len(wire[c]) = 1 /\ outcome[c].kind \in {"return", "raise"})

\* C2 (amended): every finished call yields exactly one result, a value or
\* an exception.  No _make_request sends more than one request (nothing is
\* retried).  An operation other than create_key issues one request, or none
\* when it fails before the request is sent (import_project's file read, the
\* construction of the request); create_key issues the key-creation POST and
\* at most one further request, the POST of its create_translation call.
C2_AtMostOneRequestPerDispatch ==
  \A c \in CallIds :
    /\ \A i, j \in 1..Len(wire[c]) : wire[c][i].k = wire[c][j].k => i = j
    /\ Len(wire[c]) <= (IF op[c].op = "create_key" THEN 2 ELSE 1)
    /\ Len(wire[c]) = 2 =>
         /\ Len(translations[c]) = 1
         /\ wire[c][1].method = "POST"
         /\ wire[c][1].full_url.url = "https://app.texterify.com/api/v1/projects/p1/keys"
         /\ wire[c][2].method = "POST"
         /\ wire[c][2].full_url.url =
              "https://app.texterify.com/api/v1/projects/p1/translations"
    /\ pc[c] = "done" =>
         /\ outcome[c].kind \in {"return", "raise"}
         /\ Len(wire[c]) = 0 =>
              /\ outcome[c].kind = "raise"
              /\ outcome[c].error.type \in {"FileNotFoundError", "TypeError"}
    /\ pc[c] # "done" => outcome[c].kind = "none"

\* C2 witness: a create_key call has finished after two requests.
C2_Witness ==
  \E c \in CallIds :
    pc[c] = "done" /\ op[c].op = "create_key" /\ Len(wire[c]) = 2

\* The test of C3 as claimed: no `error` field, a `data` field, an argument
\* that was supplied and is not null.
C3_ClaimedCondition(c) ==
  /\ new_key[c].t = "dict"
  /\ ~HasKey(new_key[c], "error")
  /\ HasKey(new_key[c], "data")
  /\ op[c].args.default_language_translation \notin {Omitted, PyNone}

\* C3 (as claimed): create_key issues exactly one create_translation call,
\* with key_id = data.attributes.id of the key-creation response, whenever
\* that response has no `error` field, has a `data` field and
\* default_language_translation was supplied (non-null); otherwise none.
C3_TranslationWheneverSupplied ==
  \A c \in CallIds :
    (op[c].op = "create_key" /\ pc[c] = "done") =>
      /\ (C3_ClaimedCondition(c) /\ HasKeyId(new_key[c])) =>
           /\ Len(translations[c]) = 1
           /\ translations[c][1].key_id = KeyId(new_key[c])
      /\ ~C3_ClaimedCondition(c) => (Len(translations[c]) = 0 /\ Len(wire[c]) <= 1)

\* The test of C3 as amended: `error` absent or falsy, `data` truthy and
\* holding attributes.id, the argument truthy (neither null nor empty).
C3_AmendedCondition(c) ==
  /\ new_key[c].t = "dict"
  /\ (HasKey(new_key[c], "error") =>
        \/ Item(new_key[c], "error") = PyNone
        \/ Item(new_key[c], "error") = PyStrV(""))
  /\ HasKey(new_key[c], "data")
  /\ Item(new_key[c], "data").t = "dict"
  /\ HasKey(Item(new_key[c], "data"), "attributes")
  /\ HasKey(Item(Item(new_key[c], "data"), "attributes"), "id")
  /\ op[c].args.default_language_translation \notin {Omitted, PyNone, PyStrV("")}

\* C3 (amended): create_key issues exactly one create_translation call,
\* after the key-creation request has returned and with key_id =
\* data.attributes.id of its response, whenever that response's `error` is
\* absent or falsy, its `data` is non-empty and holds attributes.id, and
\* default_language_translation is truthy (neither null nor empty); in every
\* other case it dispatches only the key-creation POST.
C3_TranslationWhenTruthy ==
  \A c \in CallIds :
    op[c].op = "create_key" =>
      /\ Len(translations[c]) <= 1
      /\ Len(translations[c]) = 1 =>
           /\ C3_AmendedCondition(c)
           /\ translations[c][1].key_id =
                Item(Item(Item(new_key[c], "data"), "attributes"), "id")
           /\ translations[c][1].content = op[c].args.default_language_translation
           /\ translations[c][1].project_id = op[c].args.project_id
           /\ Len(wire[c]) >= 1
           /\ wire[c][1].full_url.url = "https://app.texterify.com/api/v1/projects/p1/keys"
      /\ (pc[c] = "done" /\ C3_AmendedCondition(c)) => Len(translations[c]) = 1
      /\ Len(translations[c]) = 0 =>
           /\ Len(wire[c]) <= 1
           /\ \A i \in 1..Len(wire[c]) :
                /\ wire[c][i].method = "POST"
                /\ wire[c][i].full_url.url =
                     "https://app.texterify.com/api/v1/projects/p1/keys"

\* C3 witness: the response {"data": {"attributes": {"id": "1", ...}}} and a
\* non-empty default_language_translation: one create_translation call with
\* key id "1" has been made and create_key has finished.
C3_Witness ==
  \E c \in CallIds :
    /\ op[c].op = "create_key"
    /\ pc[c] = "done"
    /\ new_key[c] = BodyKey("1")
    /\ Len(translations[c]) = 1
    /\ translations[c][1].key_id = PyStrV("1")

\* The secondary call of create_key has returned NO_DEFAULT_LANGUAGE_SPECIFIED
\* and create_key has finished.
C4_Case(c) ==
  /\ op[c].op = "create_key"
  /\ pc[c] = "done"
  /\ mr[c].k = 2
  /\ mr[c].error = NoError
  /\ mr[c].result = PyDict(<< <<"error", PyStrV("NO_DEFAULT_LANGUAGE_SPECIFIED")>> >>)

\* C4: when the create_translation call of create_key returns a result whose
\* `error` is NO_DEFAULT_LANGUAGE_SPECIFIED, create_key logs a diagnostic,
\* does not raise, and returns the key-creation result unchanged.
C4_SecondaryFailureSwallowed ==
  \A c \in CallIds :
    C4_Case(c) =>
      /\ outcome[c].kind = "return"
      /\ outcome[c].value = new_key[c]
      /\ outcome[c].value # mr[c].result
      /\ Item(Item(Item(outcome[c].value, "data"), "attributes"), "id")
           = translations[c][1].key_id
      /\ \E i \in 1..Len(logs[c]) : logs[c][i].line = 168

\* C4 witness: such a create_key call has finished.
C4_Witness == \E c \in CallIds : C4_Case(c)

\* C5 (as claimed): each _make_request call opens exactly one session of
\* its own, which is closed by the time the call completes, and no session
\* serves more than one request.
C5_ExactlyOneSession ==
  \A c \in CallIds :
    DispatchDone(c) =>
      /\ Cardinality(DispatchSessions(c)) = 1
      /\ \A i \in 1..Len(sess[c]) : sess[c][i].state = "closed" /\ sess[c][i].uses <= 1

\* C5 (amended): each _make_request call opens at most one session of its
\* own: exactly one once the request has been constructed, none when the
\* construction fails (the JSON encoding of line 65 precedes line 69).  The
\* session is closed by the time the call completes, on every path (JSON
\* return, download return, status failure, an exception of the request or
\* of the decoding); no session is open after the call has returned or
\* raised, and no session serves more than one request.
C5_SessionScopedToCall ==
  \A c \in CallIds :
    /\ \A i \in 1..Len(sess[c]) : sess[c][i].uses <= 1
    /\ \A i, j \in 1..Len(sess[c]) : sess[c][i].k = sess[c][j].k => i = j
    /\ \A i \in 1..Len(sess[c]) :
         sess[c][i].state = "open" =>
           /\ sess[c][i].k = mr[c].k
           /\ pc[c] \in {"request", "await_response", "status", "exit_response",
                         "exit_session"}
    /\ (DispatchDone(c) \/ pc[c] = "done") =>
         \A i \in 1..Len(sess[c]) : sess[c][i].state = "closed"
    /\ DispatchDone(c) =>
         Cardinality(DispatchSessions(c)) =
           (IF pc[c] = "raised" /\ mr[c].error.type = "TypeError" THEN 0 ELSE 1)

\* C5 witness: a call has raised after a failure of the request, of the
\* status or of the decoding, and its one session is closed.
C5_Witness ==
  \E c \in CallIds :
    /\ pc[c] = "raised"
    /\ mr[c].error.type \in {"ClientConnectionError", "Exception", "JSONDecodeError"}
    /\ Len(sess[c]) = 1
    /\ sess[c][1].state = "closed"
    /\ sess[c][1].uses = 1

\* C6 (as claimed): a download whose status is 200 or 400 gives its caller
\* the response handle unread and still open, never a decoded structure.
C6_LiveHandleForDownload ==
  \A c \in CallIds :
    (pc[c] \in {"returned", "done"} /\ mr[c].is_file_download /\ mr[c].error = NoError) =>
      /\ mr[c].result = ResponseHandle(c, mr[c].k)
      /\ ~response[c].read
      /\ response[c].state = "open"
      /\ sess[c][mr[c].session[2]].state = "open"

\* C7 (as claimed): a failed _make_request call is logged exactly once, and
\* the exception raised to the caller is the one that was detected.
C7_LoggedExactlyOnce ==
  \A c \in CallIds :
    pc[c] = "raised" =>
      /\ Len(DispatchLogs(c)) = 1
      /\ mr[c].error # NoError

\* The six parameters of get_keys and their defaults.
C8_Fields ==
  << <<"page", PyInt(1)>>, <<"per_page", PyInt(10)>>,
     <<"case_sensitive", PyBool(FALSE)>>, <<"only_html_enabled", PyBool(FALSE)>>,
     <<"only_untranslated", PyBool(FALSE)>>, <<"only_with_overwrites", PyBool(FALSE)>> >>

\* The value the caller gave get_keys for a parameter, or Omitted.
C8_Given(a, name) ==
  CASE name = "page" -> a.page
    [] name = "per_page" -> a.per_page
    [] name = "case_sensitive" -> a.case_sensitive
    [] name = "only_html_enabled" -> a.only_html_enabled
    [] name = "only_untranslated" -> a.only_untranslated
    [] name = "only_with_overwrites" -> a.only_with_overwrites

\* C8: whatever arguments the caller supplies or omits, get_keys passes to
\* the dispatcher a GET on projects/{project}/keys whose parameters hold all
\* six fields, each with the caller's value or its default.
C8_GetKeysSendsSixFields ==
  \A c \in CallIds :
    (op[c].op = "get_keys" /\ pc[c] # "idle") =>
      /\ mr[c].method = "GET"
      /\ mr[c].url = "projects/p1/keys"
      /\ ~mr[c].is_file_download
      /\ mr[c].arg_params.t = "dict"
      /\ Len(mr[c].arg_params.v) = 6
      /\ \A i \in 1..6 :
           /\ mr[c].arg_params.v[i][1] = C8_Fields[i][1]
           /\ mr[c].arg_params.v[i][2] =
                (IF C8_Given(op[c].args, C8_Fields[i][1]) = Omitted
                 THEN C8_Fields[i][2]
                 ELSE C8_Given(op[c].args, C8_Fields[i][1]))

\* C8 witness: get_keys called with only page and only_untranslated, its
\* request sent.
C8_Witness ==
  \E c \in CallIds :
    /\ op[c].op = "get_keys"
    /\ pc[c] = "await_response"
    /\ op[c].args.page = PyInt(2)
    /\ op[c].args.only_untranslated = PyBool(TRUE)
    /\ op[c].args.per_page = Omitted
    /\ op[c].args.case_sensitive = Omitted
    /\ op[c].args.only_html_enabled = Omitted
    /\ op[c].args.only_with_overwrites = Omitted
    /\ Len(wire[c]) = 1

\* C9: in every GET request sent, a parameter whose value is a boolean is
\* in the query string as "true" or "false" (and is handed to the HTTP layer
\* as that string); any other value is there in its natural string form.
C9_BooleansLowercase ==
  \A c \in CallIds :
    \A n \in 1..Len(wire[c]) :
      LET w == wire[c][n]
          given == mr[c].arg_params
      IN (w.method = "GET" /\ given.t = "dict" /\ Len(given.v) > 0) =>
           /\ Len(w.full_url.query) = Len(given.v)
           /\ w.options.params.t = "pairs"
           /\ Len(w.options.params.v) = Len(given.v)
           /\ \A i \in 1..Len(given.v) :
                LET x == given.v[i][2]
                IN /\ w.full_url.query[i][1] = given.v[i][1]
                   /\ w.options.params.v[i][1] = given.v[i][1]
                   /\ x.t = "bool" =>
                        /\ w.full_url.query[i][2] = (IF x.v THEN "true" ELSE "false")
                        /\ w.options.params.v[i][2] =
                             PyStrV(IF x.v THEN "true" ELSE "false")
                   /\ x.t = "int" => w.full_url.query[i][2] = ToString(x.v)
                   /\ x.t = "str" => w.full_url.query[i][2] = QuotePlus(x.v)
                   /\ x.t # "bool" => w.options.params.v[i][2] = x

\* C9 witness: a GET request has been sent whose query holds a boolean that
\* was True and one that was False.
C9_Witness ==
  \E c \in CallIds :
    /\ Len(wire[c]) = 1
    /\ wire[c][1].method = "GET"
    /\ \E i, j \in 1..Len(wire[c][1].full_url.query) :
         /\ mr[c].arg_params.v[i][2] = PyBool(TRUE)
         /\ wire[c][1].full_url.query[i][2] = "true"
         /\ mr[c].arg_params.v[j][2] = PyBool(FALSE)
         /\ wire[c][1].full_url.query[j][2] = "false"

\* The header set of a client constructed with the given credentials.
C10_Headers ==
  [h \in {"Accept", "Content-Type", "Auth-Email", "Auth-Secret"} |->
     CASE h = "Accept" -> "application/json"
       [] h = "Content-Type" -> "application/json"
       [] h = "Auth-Email" -> auth_email
       [] h = "Auth-Secret" -> auth_secret]

\* C10: under any interleaving of the calls in flight on one client, the
\* base URL and the header set keep their values of construction, every
\* request is sent with exactly those headers, and each call's request and
\* result are those of its own arguments and of its own response.
C10_ConcurrentCallsIndependent ==
  /\ api_base_url = "https://app.texterify.com/api/v1/"
  /\ request_headers = C10_Headers
  /\ \A c \in CallIds :
       /\ \A n \in 1..Len(wire[c]) :
            /\ wire[c][n].options.headers = C10_Headers
            /\ wire[c][n].session[1] = c
            /\ wire[c][n].full_url.url =
                 (IF op[c].op = "export_project"
                  THEN "https://app.texterify.com/api/v1/projects/"
                         \o op[c].args.project_id.v \o "/exports/"
                         \o op[c].args.export_config_id.v
                  ELSE "https://app.texterify.com/api/v1/projects/"
                         \o op[c].args.project_id.v
                         \o (IF wire[c][n].k = 1 THEN "/keys" ELSE "/translations"))
            /\ wire[c][n].method = (IF op[c].op = "export_project" THEN "GET" ELSE "POST")
       /\ (DispatchDone(c) /\ response[c].state # "none") =>
            /\ pc[c] = "raised" <=>
                 \/ response[c].status \notin {200, 400}
                 \/ ~mr[c].is_file_download /\ ~IsJson(response[c].body)
            /\ (pc[c] = "raised" /\ response[c].status \notin {200, 400}) =>
                 mr[c].error.msg = "Invalid response status received: "
                                     \o ToString(response[c].status) \o "\n"
            /\ (pc[c] = "returned" /\ ~mr[c].is_file_download) =>
                 JsonDumps(mr[c].result) = response[c].body
            /\ (pc[c] = "returned" /\ mr[c].is_file_download) =>
                 mr[c].result = ResponseHandle(c, mr[c].k)

\* C10 witness: two calls of different operations are in flight together,
\* one returned from its dispatch, the other failing on its own status.
C10_Witness ==
  \E c, d \in CallIds :
    /\ c # d
    /\ op[c].op # op[d].op
    /\ pc[c] = "returned"
    /\ response[c].status = 200
    /\ pc[d] = "exit_response"
    /\ response[d].status = 404
    /\ mr[d].error # NoError

(***************************************************************************)
(* The query of a request as it is sent.                                   *)
(***************************************************************************)
\* Line 67/70: the items the `params` option of session.request contributes
\* to the query (none for None, for an empty dict and for a non-GET request,
\* whose options hold `data` instead).
ParamsOption(w) ==
  IF "params" \in DOMAIN w.options /\ w.options.params.t = "pairs"
  THEN UrlEncode(w.options.params)
  ELSE << >>

\* Line 70: session.request(method, full_url, params=...) sends the query of
\* full_url followed by the items of params.
SentQuery(w) == w.full_url.query \o ParamsOption(w)

\* The number of items of a query with the given name.
C11_Occurrences(q, name) == Cardinality({i \in 1..Len(q) : q[i][1] = name})

\* C11 (as claimed): for a GET request with non-empty params the parameters
\* reach the HTTP layer through exactly one mechanism, the URL's query
\* string or the request's query parameters, not both, so that each
\* parameter name occurs exactly once in the query sent; a non-GET request
\* carries params only as a JSON body and never in the query.
C11_ParamsThroughOneMechanism ==
  \A c \in CallIds :
    \A n \in 1..Len(wire[c]) :
      LET w == wire[c][n]
          given == mr[c].arg_params
      IN /\ (w.method = "GET" /\ w.k = mr[c].k /\ Truthy(given)) =>
              /\ ~(Len(w.full_url.query) > 0 /\ Len(ParamsOption(w)) > 0)
              /\ \A i \in 1..Len(given.v) :
                   C11_Occurrences(SentQuery(w), given.v[i][1]) = 1
         /\ w.method # "GET" =>
              /\ "data" \in DOMAIN w.options
              /\ "params" \notin DOMAIN w.options
              /\ SentQuery(w) = << >>

====
